---------------------------- MODULE Spec2Model ----------------------------
(* Model of stock_screener.py: the retrying fetcher (fetch_stock_data),   *)
(* the qualification predicate (stock_qualifies), the screening loop      *)
(* (build_screener) and the rotating result store                         *)
(* (save_recommended_results / prune_old_results).                        *)
(*                                                                        *)
(* Strings are modelled as sequences of tokens, so that concatenation is  *)
(* \o and the substring test `x in s` is membership of a token.           *)
EXTENDS Integers, Sequences, FiniteSets, TLC

VARIABLES
    tickers,      \* build_screener: the input list
    i,            \* build_screener: 1-based position of the for loop
    qualifying,   \* build_screener: qualifying
    all_results,  \* build_screener: all_results
    pc,           \* control position
    max_retries,  \* fetch_stock_data: parameter
    retries,      \* fetch_stock_data: retries
    delay,        \* fetch_stock_data: delay
    result,       \* value returned by fetch_stock_data (info, hist)
    exc,          \* message of the exception propagating out of fetch_stock_data
    trace,        \* history: provider calls and time.sleep calls of the fetch in
                  \* progress or just ended (emptied when its verdict is recorded)
    log,          \* history: verdicts recorded and time.sleep calls of build_screener
    folder_exists,\* whether the results folder exists
    dir,          \* results folder: file name -> modification time
    now,          \* wall clock, in ticks
    lastOp,       \* history: last result-store operation, its argument and time
    before,       \* history: dir before the last result-store operation
    written,      \* history: names of the files the last operation wrote
    audit,        \* all_stocks_results.txt: its text
    blocks,       \* history: arguments and times of the save_all_results calls
    cache,        \* us_stocks.txt: whether it exists, and its lines
    load          \* history: how load_tickers ended

vars == <<tickers, i, qualifying, all_results, pc, max_retries, retries, delay,
          result, exc, trace, log, folder_exists, dir, now, lastOp, before,
          written, audit, blocks, cache, load>>

screenVars == <<tickers, i, qualifying, all_results, pc, max_retries, retries,
                delay, result, exc, trace, log>>

fileVars == <<audit, blocks, cache, load>>

storeVars == <<folder_exists, dir, now, lastOp, before, written, audit, blocks,
               cache, load>>

--------------------------------------------------------------------------
(* Bounds *)

MaxTickers == 3

MaxRetriesArg == 4

\* Snapshot files of earlier runs found in the results folder.
MaxExisting == 10

\* Last tick of the clock; modification times range over 1..MaxClock.
MaxClock == 2

\* Largest max_files passed to prune_old_results.
MaxFilesArg == 8

\* Direct calls of save_all_results taken in the persistence specification.
MaxRuns == 2

\* Lines of a cached ticker list.
MaxCacheLines == 2

--------------------------------------------------------------------------
(* Input samples *)

\* Ticker symbols as sequences of characters.
SampleTickers == { <<"A">>, <<"B", "7">>, <<"-", ".">> }

AlnumChars == {"A", "B", "7"}

\* Messages of the exceptions the provider raises.
RateLimitMsg == <<"429 Client Error: ", "Too Many Requests", " for url">>

AuthMsg == <<"401 Client Error", ": Unauthorized">>

NotFoundMsg == <<"404 Client Error", ": Not Found">>

ProviderErrors == {RateLimitMsg, AuthMsg, NotFoundMsg}

--------------------------------------------------------------------------
(* Fundamentals snapshot (info) and price history (hist).                 *)
(* A field of info is absent (no key), None, or a value.  Ratios are in   *)
(* hundredths, prices in hundredths, market capitalization in units.      *)

Absent == [tag |-> "absent", v |-> 0, s |-> <<>>]

None == [tag |-> "none", v |-> 0, s |-> <<>>]

Num(n) == [tag |-> "num", v |-> n, s |-> <<>>]

Str(t) == [tag |-> "str", v |-> 0, s |-> t]

\* dict.get(key, default)
GetOrZero(info, key, default) == IF info[key] = Absent THEN Num(0) ELSE info[key]

Get(info, key, default) == IF info[key] = Absent THEN default ELSE info[key]

\* str.lower() on the sample words
Lower(w) ==
    CASE w = "Financial" -> "financial"
      [] w = "Real Estate" -> "real estate"
      [] w = "Tobacco" -> "tobacco"
      [] w = "OTC" -> "otc"
      [] w = "Steel" -> "steel"
      [] w = "NYQ" -> "nyq"
      [] OTHER -> w

LowerAll(s) == [k \in 1..Len(s) |-> Lower(s[k])]

\* `needle in s`
Contains(s, needle) == \E k \in 1..Len(s) : s[k] = needle

Min(S) == CHOOSE x \in S : \A y \in S : x <= y

RECURSIVE SeqsUpTo(_, _)
SeqsUpTo(S, n) ==
    IF n = 0 THEN {<<>>}
    ELSE LET shorter == SeqsUpTo(S, n - 1)
         IN shorter \cup {Append(q, x) : q \in shorter, x \in S}

--------------------------------------------------------------------------
(* stock_qualifies *)

Returns(b) == [raised |-> FALSE, ret |-> b, msg |-> <<>>]

Raises(m) == [raised |-> TRUE, ret |-> FALSE, msg |-> m]

\* Comparing None with a number raises TypeError.
TypeErrorMsg == <<"'<' not supported between instances of 'NoneType' and 'float'">>

MarketCapMin == 50000000

DebtToEquityMax == 40

PriceToBookMax == 120

PennyPrice == 500

MaxAboveLowPct == 35

\* (current_price - three_year_low) / three_year_low > 0.35, where
\* three_year_low is a numpy float: a division by zero gives +-inf or nan
\* and raises nothing.
RatioReaches(current_price, three_year_low) ==
    LET num == current_price - three_year_low IN
    IF three_year_low > 0 THEN 100 * num >= MaxAboveLowPct * three_year_low
    ELSE IF three_year_low < 0 THEN 100 * num <= MaxAboveLowPct * three_year_low
    ELSE num > 0

RatioExceeds(current_price, three_year_low) ==
    LET num == current_price - three_year_low IN
    IF three_year_low > 0 THEN 100 * num > MaxAboveLowPct * three_year_low
    ELSE IF three_year_low < 0 THEN 100 * num < MaxAboveLowPct * three_year_low
    ELSE num > 0

PriceRules(info, hist) ==
    IF Len(hist) = 0 THEN Returns(FALSE)
    ELSE
      LET three_year_low == Min({hist[k] : k \in 1..Len(hist)})
          current_price == Get(info, "regularMarketPrice", None)
      IN IF current_price = None THEN Returns(FALSE)
         ELSE IF current_price.v < PennyPrice THEN Returns(FALSE)
         ELSE IF RatioExceeds(current_price.v, three_year_low) THEN Returns(FALSE)
         ELSE Returns(TRUE)

RatioRules(info, hist) ==
    LET marketCap == Get(info, "marketCap", Num(0))
        debtToEquity == Get(info, "debtToEquity", Num(10000))
        priceToBook == Get(info, "priceToBook", Num(10000))
        profitMargins == Get(info, "profitMargins", Num(0))
    IN IF marketCap = None THEN Raises(TypeErrorMsg)
       ELSE IF marketCap.v < MarketCapMin THEN Returns(FALSE)
       ELSE IF debtToEquity = None THEN Raises(TypeErrorMsg)
       ELSE IF debtToEquity.v > DebtToEquityMax THEN Returns(FALSE)
       ELSE IF priceToBook = None THEN Raises(TypeErrorMsg)
       ELSE IF priceToBook.v >= PriceToBookMax THEN Returns(FALSE)
       ELSE IF profitMargins = None THEN Raises(TypeErrorMsg)
       ELSE IF profitMargins.v <= 0 THEN Returns(FALSE)
       ELSE PriceRules(info, hist)

stock_qualifies(info, hist) ==
    LET industry == Get(info, "industry", Str(<<>>))
        exchange == Get(info, "exchange", Str(<<>>))
    IN IF /\ Len(industry.s) > 0
          /\ \/ Contains(LowerAll(industry.s), "financial")
             \/ Contains(LowerAll(industry.s), "real estate")
             \/ Contains(LowerAll(industry.s), "tobacco")
       THEN Returns(FALSE)
       ELSE IF Len(exchange.s) > 0 /\ Contains(LowerAll(exchange.s), "otc")
       THEN Returns(FALSE)
       ELSE RatioRules(info, hist)

\* Sample answers of the provider: (info, hist) pairs.
GoodInfo ==
    [industry |-> Str(<<"Steel">>), exchange |-> Str(<<"NYQ">>),
     marketCap |-> Num(60000000), debtToEquity |-> Num(30),
     priceToBook |-> Num(110), profitMargins |-> Num(5),
     regularMarketPrice |-> Num(600)]

ProviderData ==
    { [info |-> GoodInfo, hist |-> <<550, 500>>],
      [info |-> GoodInfo, hist |-> <<>>],
      [info |-> [GoodInfo EXCEPT !.industry = Str(<<"Tobacco">>)], hist |-> <<500>>],
      [info |-> [GoodInfo EXCEPT !.marketCap = None], hist |-> <<500>>] }

NoData ==
    [info |-> [industry |-> Absent, exchange |-> Absent, marketCap |-> Absent,
               debtToEquity |-> Absent, priceToBook |-> Absent,
               profitMargins |-> Absent, regularMarketPrice |-> Absent],
     hist |-> <<>>]

--------------------------------------------------------------------------
(* fetch_stock_data *)

DefaultMaxRetries == 3

InitialDelay == 1

\* One provider call (for the ticker at position i) and its answer, as
\* recorded in trace.
CallEvent(ok, data, msg) ==
    [ev |-> "call", d |-> i, ok |-> ok, data |-> data, msg |-> msg]

\* One time.sleep(d), as recorded in trace and log.
SleepEvent(d) ==
    [ev |-> "sleep", d |-> d, ok |-> FALSE, data |-> NoData, msg |-> <<>>]

\* "Too Many Requests" in error_message or "401 Client Error" in error_message
IsRetryableAny(error_message) == TRUE

IsRetryable(error_message) ==
    \/ Contains(error_message, "Too Many Requests")
    \/ Contains(error_message, "401 Client Error")

\* while retries < max_retries
LoopContinuesOffByOne(r, m) == r <= m

LoopContinues(r, m) == r < m

\* delay *= 2
NextDelayLinear(d) == d + 1

NextDelay(d) == d * 2

\* f"Failed to fetch data for {ticker} after {max_retries} retries."
FailedMsg(ticker, n) ==
    <<"Failed to fetch data for ">> \o ticker \o <<" after ", ToString(n), " retries.">>

\* Entry of fetch_stock_data: retries = 0, delay = 1.
FetchEntryNoReset ==
    /\ retries' = retries
    /\ delay' = delay
    /\ trace' = <<>>
    /\ result' = NoData
    /\ exc' = <<>>

FetchEntry ==
    /\ retries' = 0
    /\ delay' = InitialDelay
    /\ trace' = <<>>
    /\ result' = NoData
    /\ exc' = <<>>

\* The try body succeeds: return info, hist.
AttemptOk ==
    /\ pc = "while"
    /\ LoopContinues(retries, max_retries)
    /\ \E data \in ProviderData :
         /\ result' = data
         /\ trace' = Append(trace, CallEvent(TRUE, data, <<>>))
    /\ pc' = "returned"
    /\ UNCHANGED <<tickers, i, qualifying, all_results, max_retries, retries,
                   delay, exc, log>>
    /\ UNCHANGED storeVars

\* The try body raises a retryable error: sleep, count, double the delay.
AttemptRetry ==
    /\ pc = "while"
    /\ LoopContinues(retries, max_retries)
    /\ \E error_message \in ProviderErrors :
         /\ IsRetryable(error_message)
         /\ trace' = trace \o <<CallEvent(FALSE, NoData, error_message),
                                 SleepEvent(delay)>>
    /\ retries' = retries + 1
    /\ delay' = NextDelay(delay)
    /\ UNCHANGED <<tickers, i, qualifying, all_results, pc, max_retries,
                   result, exc, log>>
    /\ UNCHANGED storeVars

\* The try body raises any other error: raise e.
AttemptRaise ==
    /\ pc = "while"
    /\ LoopContinues(retries, max_retries)
    /\ \E error_message \in ProviderErrors :
         /\ ~IsRetryable(error_message)
         /\ trace' = Append(trace, CallEvent(FALSE, NoData, error_message))
         /\ exc' = error_message
    /\ pc' = "raised"
    /\ UNCHANGED <<tickers, i, qualifying, all_results, max_retries, retries,
                   delay, result, log>>
    /\ UNCHANGED storeVars

\* The while loop ends: raise Exception("Failed to fetch ...").
Exhausted ==
    /\ pc = "while"
    /\ ~LoopContinues(retries, max_retries)
    /\ exc' = FailedMsg(tickers[i], max_retries)
    /\ pc' = "raised"
    /\ UNCHANGED <<tickers, i, qualifying, all_results, max_retries, retries,
                   delay, result, trace, log>>
    /\ UNCHANGED storeVars

FetchNext == AttemptOk \/ AttemptRetry \/ AttemptRaise \/ Exhausted

--------------------------------------------------------------------------
(* build_screener *)

InterSymbolPause == 1

\* re.search(r'[A-Za-z0-9]', ticker)
is_valid_ticker_nonempty(ticker) == Len(ticker) > 0

is_valid_ticker(ticker) == \E k \in 1..Len(ticker) : ticker[k] \in AlnumChars

SkippedLine(ticker) == ticker \o <<" - Skipped invalid ticker">>

QualifiesLine(ticker) == ticker \o <<" - Qualifies">>

NotQualifiesLine(ticker) == ticker \o <<" - Does not qualify">>

ErrorLine(ticker, e) == ticker \o <<" - Error: ">> \o e

\* The verdict of the ticker at position k is appended to all_results.
VerdictEvent(k) ==
    [ev |-> "verdict", d |-> k, ok |-> FALSE, data |-> NoData, msg |-> <<>>]

\* fetch_stock_data is entered for the ticker at position k.
FetchEvent(k) ==
    [ev |-> "fetch", d |-> k, ok |-> FALSE, data |-> NoData, msg |-> <<>>]

\* if qualifies: qualifying.append(ticker)
AppendAlways(list, ticker, q) == Append(list, ticker)

AppendIfQualifies(list, ticker, q) ==
    IF ~q.raised /\ q.ret THEN Append(list, ticker) ELSE list

\* The line appended to all_results once fetch has returned.
VerdictLine(ticker, q) ==
    IF q.raised THEN ErrorLine(ticker, q.msg)
    ELSE IF q.ret THEN QualifiesLine(ticker)
    ELSE NotQualifiesLine(ticker)

\* for ticker in tickers: an invalid ticker is recorded and skipped (continue).
SkipInvalid ==
    /\ pc = "for"
    /\ i <= Len(tickers)
    /\ ~is_valid_ticker(tickers[i])
    /\ all_results' = Append(all_results, SkippedLine(tickers[i]))
    /\ log' = Append(log, VerdictEvent(i))
    /\ i' = i + 1
    /\ UNCHANGED <<tickers, qualifying, pc, max_retries, retries, delay, result,
                   exc, trace>>
    /\ UNCHANGED storeVars

\* for ticker in tickers: a valid ticker enters fetch_stock_data(ticker).
StartFetch ==
    /\ pc = "for"
    /\ i <= Len(tickers)
    /\ is_valid_ticker(tickers[i])
    /\ FetchEntry
    /\ max_retries' = DefaultMaxRetries
    /\ pc' = "while"
    /\ log' = Append(log, FetchEvent(i))
    /\ UNCHANGED <<tickers, i, qualifying, all_results>>
    /\ UNCHANGED storeVars

\* fetch returned: evaluate stock_qualifies inside the try, record the
\* verdict, then time.sleep(1).
Evaluate ==
    /\ pc = "returned"
    /\ LET q == stock_qualifies(result.info, result.hist)
           ticker == tickers[i]
       IN /\ qualifying' = AppendIfQualifies(qualifying, ticker, q)
          /\ all_results' = Append(all_results, VerdictLine(ticker, q))
    /\ log' = log \o <<VerdictEvent(i), SleepEvent(InterSymbolPause)>>
    /\ i' = i + 1
    /\ pc' = "for"
    /\ trace' = <<>>
    /\ UNCHANGED <<tickers, max_retries, retries, delay, result, exc>>
    /\ UNCHANGED storeVars

\* fetch raised: except Exception records the error line, then time.sleep(1).
\* The exception name e is unbound when the except clause ends.
HandleErrorNoPause ==
    /\ pc = "raised"
    /\ all_results' = Append(all_results, ErrorLine(tickers[i], exc))
    /\ log' = Append(log, VerdictEvent(i))
    /\ i' = i + 1
    /\ pc' = "for"
    /\ exc' = <<>>
    /\ trace' = <<>>
    /\ UNCHANGED <<tickers, qualifying, max_retries, retries, delay, result>>
    /\ UNCHANGED storeVars

HandleError ==
    /\ pc = "raised"
    /\ all_results' = Append(all_results, ErrorLine(tickers[i], exc))
    /\ log' = log \o <<VerdictEvent(i), SleepEvent(InterSymbolPause)>>
    /\ i' = i + 1
    /\ pc' = "for"
    /\ exc' = <<>>
    /\ trace' = <<>>
    /\ UNCHANGED <<tickers, qualifying, max_retries, retries, delay, result>>
    /\ UNCHANGED storeVars

\* The for loop ends: return qualifying, all_results.
ReturnResults ==
    /\ pc = "for"
    /\ i > Len(tickers)
    /\ pc' = "done"
    /\ UNCHANGED <<tickers, i, qualifying, all_results, max_retries, retries,
                   delay, result, exc, trace, log>>
    /\ UNCHANGED storeVars

ScreenNext == SkipInvalid \/ StartFetch \/ Evaluate \/ HandleError \/ ReturnResults

--------------------------------------------------------------------------
(* Result store: save_recommended_results, prune_old_results *)

\* Snapshots kept by save_recommended_results.
MaxFiles == 7

\* Clock ticks per second: strftime("%Y%m%d_%H%M%S") drops the fraction.
TicksPerSecond == 2

\* datetime.now().strftime("%Y%m%d_%H%M%S")
Stamp(t) == t \div TicksPerSecond

\* A file name: what it starts with, its timestamp, what it ends with.
FileName(prefix, stamp, ext) == [prefix |-> prefix, stamp |-> stamp, ext |-> ext]

\* f"results_{timestamp}.txt"
SnapshotName(stamp) == FileName("results_", stamp, ".txt")

\* f.startswith("results_") and f.endswith(".txt")
MatchesPrefix(f) == f.prefix = "results_"

MatchesPattern(f) == f.prefix = "results_" /\ f.ext = ".txt"

EmptyDir == [f \in {} |-> 0]

NoOp == [op |-> "none", max_files |-> 0, at |-> 0]

\* files: the names in the folder that match the snapshot pattern.
SnapshotFiles(d) == {f \in DOMAIN d : MatchesPattern(f)}

\* len(files[:-max_files]) under the guard len(files) > max_files
DeleteCountFrom(n, max_files) == IF n >= max_files THEN n - max_files + 1 ELSE 0

DeleteCount(n, max_files) ==
    IF n > max_files
    THEN IF max_files = 0 THEN 0 ELSE n - max_files
    ELSE 0

\* files.sort(key=getmtime): f may come before g.
NewestFirst(d, f, g) == d[f] >= d[g]

SortsBefore(d, f, g) == d[f] <= d[g]

\* The sets of files that files[:-max_files] can be after the sort: the
\* order of files with equal modification times is that of os.listdir,
\* which is arbitrary.
DeleteSets(d, max_files) ==
    LET files == SnapshotFiles(d)
        cnt == DeleteCount(Cardinality(files), max_files)
        NotAfter(f) == {g \in files : SortsBefore(d, g, f)}
        Ahead(f) == {g \in files : SortsBefore(d, g, f) /\ ~SortsBefore(d, f, g)}
        must == {f \in files : Cardinality(NotAfter(f)) <= cnt}
        may == {f \in files : Cardinality(Ahead(f)) < cnt}
    IN IF cnt = 0 THEN {{}}
       ELSE {must \cup x : x \in {y \in SUBSET (may \ must) :
                                    Cardinality(y) = cnt - Cardinality(must)}}

\* os.remove(file) for every file of the set.
RemoveAll(d, gone) == [f \in (DOMAIN d) \ gone |-> d[f]]

\* open(filename, "w"): creates or truncates the file, written at time t.
WriteFileAtEpoch(d, f, t) == [g \in (DOMAIN d) \cup {f} |-> IF g = f THEN 0 ELSE d[g]]

WriteFile(d, f, t) == [g \in (DOMAIN d) \cup {f} |-> IF g = f THEN t ELSE d[g]]

\* save_recommended_results(qualifying): make the folder, write the
\* snapshot named after the current timestamp, prune to 7 files.
save_recommended_results ==
    /\ LET filename == SnapshotName(Stamp(now))
           saved == WriteFile(dir, filename, now)
       IN /\ \E gone \in DeleteSets(saved, MaxFiles) : dir' = RemoveAll(saved, gone)
          /\ written' = {filename}
    /\ folder_exists' = TRUE
    /\ lastOp' = [op |-> "save", max_files |-> MaxFiles, at |-> now]
    /\ before' = dir

\* save_recommended_results called directly.
SaveSnapshot ==
    /\ pc = "store"
    /\ save_recommended_results
    /\ UNCHANGED now
    /\ UNCHANGED screenVars
    /\ UNCHANGED fileVars

\* prune_old_results(folder, max_files)
Prune ==
    /\ pc = "store"
    /\ folder_exists
    /\ \E max_files \in 0..MaxFilesArg :
         /\ \E gone \in DeleteSets(dir, max_files) : dir' = RemoveAll(dir, gone)
         /\ lastOp' = [op |-> "prune", max_files |-> max_files, at |-> now]
    /\ before' = dir
    /\ written' = {}
    /\ UNCHANGED <<folder_exists, now>>
    /\ UNCHANGED screenVars
    /\ UNCHANGED fileVars

\* prune_old_results on a folder that does not exist: os.listdir raises.
PruneMissing ==
    /\ pc = "store"
    /\ ~folder_exists
    /\ lastOp' = [op |-> "prune_raised", max_files |-> 0, at |-> now]
    /\ before' = dir
    /\ written' = {}
    /\ UNCHANGED <<folder_exists, dir, now>>
    /\ UNCHANGED screenVars
    /\ UNCHANGED fileVars

\* Time passes.
Tick ==
    /\ pc = "store"
    /\ now < MaxClock
    /\ now' = now + 1
    /\ UNCHANGED <<folder_exists, dir, lastOp, before, written>>
    /\ UNCHANGED screenVars
    /\ UNCHANGED fileVars

StoreNext == SaveSnapshot \/ Prune \/ PruneMissing \/ Tick

--------------------------------------------------------------------------
(* Audit log: save_all_results *)

\* datetime.now().strftime("%Y%m%d_%H%M%S"): the clock to the second.
TimeStamp(t) == ToString(Stamp(t))

\* open(filename, "a"): writing starts after the text the file holds.
OpenTruncate(text) == <<>>

OpenAppend(text) == text

\* for line in all_results: f.write(line + "\n")
RECURSIVE WriteLines(_, _)
WriteLines(text, lines) ==
    IF lines = <<>> THEN text
    ELSE WriteLines(text \o Head(lines) \o <<"\n">>, Tail(lines))

\* save_all_results(results): the header, the lines, an empty line.
save_all_results(results) ==
    /\ audit' = WriteLines(OpenAppend(audit) \o <<"Run at ", TimeStamp(now), "\n">>,
                           results) \o <<"\n">>
    /\ blocks' = Append(blocks, [at |-> now, lines |-> results])

\* Sample values of all_results.
SampleResults ==
    { <<>>, <<QualifiesLine(<<"A">>), SkippedLine(<<"-", ".">>)>> }

\* save_all_results(all_results) called directly.
AppendAudit ==
    /\ pc = "store"
    /\ Len(blocks) < MaxRuns
    /\ \E results \in SampleResults : save_all_results(results)
    /\ UNCHANGED <<cache, load>>
    /\ UNCHANGED <<folder_exists, dir, now, lastOp, before, written>>
    /\ UNCHANGED screenVars

PersistNext == StoreNext \/ AppendAudit

--------------------------------------------------------------------------
(* Ticker list: load_tickers, generate_ticker_list; main *)

\* line.strip(), the line break already removed
RECURSIVE StripLeft(_)
StripLeft(line) ==
    IF line # <<>> /\ Head(line) = " " THEN StripLeft(Tail(line)) ELSE line

RECURSIVE StripRight(_)
StripRight(line) ==
    IF line # <<>> /\ line[Len(line)] = " "
    THEN StripRight(SubSeq(line, 1, Len(line) - 1))
    ELSE line

Strip(line) == StripRight(StripLeft(line))

\* [line.strip() for line in f if line.strip()]
RECURSIVE ReadTickers(_)
ReadTickers(lines) ==
    IF lines = <<>> THEN <<>>
    ELSE LET ticker == Strip(Head(lines))
         IN (IF ticker = <<>> THEN <<>> ELSE <<ticker>>) \o ReadTickers(Tail(lines))

\* Order of the characters in a string comparison.
CodePoint(c) ==
    CASE c = " " -> 32
      [] c = "-" -> 45
      [] c = "." -> 46
      [] c = "7" -> 55
      [] c = "A" -> 65
      [] c = "B" -> 66

RECURSIVE StrLess(_, _)
StrLess(a, b) ==
    IF b = <<>> THEN FALSE
    ELSE IF a = <<>> THEN TRUE
    ELSE IF Head(a) = Head(b) THEN StrLess(Tail(a), Tail(b))
    ELSE CodePoint(Head(a)) < CodePoint(Head(b))

\* sorted(list(tickers_set))
RECURSIVE Sorted(_)
Sorted(S) ==
    IF S = {} THEN <<>>
    ELSE LET first == CHOOSE x \in S : \A y \in S \ {x} : StrLess(x, y)
         IN <<first>> \o Sorted(S \ {first})

Range(q) == {q[k] : k \in 1..Len(q)}

\* Answers of si.tickers_sp500(), si.tickers_nasdaq(), si.tickers_dow().
IndexLists == SeqsUpTo(SampleTickers, 1)

\* union of the three lists, sorted
TickersList(sp500, nasdaq, dow) ==
    Sorted(Range(sp500) \cup Range(nasdaq) \cup Range(dow))

\* main: `if not tickers: return`, otherwise build_screener(tickers).
MainContinuesAlways(list) == TRUE

MainContinues(list) == list # <<>>

\* main receives the list load_tickers returned.
Loaded(list, how) ==
    /\ pc = "main"
    /\ tickers' = list
    /\ pc' = IF MainContinues(list) THEN "for" ELSE "exit"
    /\ load' = [how |-> how]
    /\ UNCHANGED <<i, qualifying, all_results, max_retries, retries, delay,
                   result, exc, trace, log>>
    /\ UNCHANGED <<folder_exists, dir, now, lastOp, before, written, audit,
                   blocks>>

\* load_tickers: the file exists and is read.
LoadCached ==
    /\ cache.exists
    /\ Loaded(ReadTickers(cache.lines), "cached")
    /\ UNCHANGED cache

\* load_tickers: the file exists and reading it raises.
LoadReadFails ==
    /\ cache.exists
    /\ Loaded(<<>>, "read_failed")
    /\ UNCHANGED cache

\* generate_ticker_list: the three lists arrive and are written.
GenerateOk ==
    /\ ~cache.exists
    /\ \E sp500 \in IndexLists, nasdaq \in IndexLists, dow \in IndexLists :
         LET tickers_list == TickersList(sp500, nasdaq, dow)
         IN /\ cache' = [exists |-> TRUE, lines |-> tickers_list]
            /\ Loaded(tickers_list, "generated")

\* generate_ticker_list: one of the three provider calls raises; the file
\* is opened only after them.
GenerateProviderFails ==
    /\ ~cache.exists
    /\ Loaded(<<>>, "provider_failed")
    /\ UNCHANGED cache

\* generate_ticker_list: open or write raises; the file is missing or
\* holds the lines written so far.
GenerateWriteFails ==
    /\ ~cache.exists
    /\ \E sp500 \in IndexLists, nasdaq \in IndexLists, dow \in IndexLists :
         LET tickers_list == TickersList(sp500, nasdaq, dow)
         IN \E n \in 0..Len(tickers_list) :
              cache' \in {cache, [exists |-> TRUE, lines |-> SubSeq(tickers_list, 1, n)]}
    /\ Loaded(<<>>, "write_failed")

LoadNext ==
    LoadCached \/ LoadReadFails \/ GenerateOk \/ GenerateProviderFails
      \/ GenerateWriteFails

\* main: save_all_results(all_results)
MainSaveAll ==
    /\ pc = "done"
    /\ save_all_results(all_results)
    /\ pc' = "audited"
    /\ UNCHANGED <<tickers, i, qualifying, all_results, max_retries, retries,
                   delay, result, exc, trace, log>>
    /\ UNCHANGED <<folder_exists, dir, now, lastOp, before, written, cache, load>>

\* main: save_recommended_results(qualifying_stocks)
MainSaveRecommended ==
    /\ pc = "audited"
    /\ save_recommended_results
    /\ pc' = "exit"
    /\ UNCHANGED <<tickers, i, qualifying, all_results, max_retries, retries,
                   delay, result, exc, trace, log>>
    /\ UNCHANGED <<now, audit, blocks, cache, load>>

MainNext ==
    LoadNext \/ ScreenNext \/ FetchNext \/ MainSaveAll \/ MainSaveRecommended

--------------------------------------------------------------------------
(* Specifications *)

\* No cached ticker list, an empty audit log.
NoCache == [exists |-> FALSE, lines |-> <<>>]

NotLoaded == [how |-> "none"]

FilesIdle ==
    /\ audit = <<>>
    /\ blocks = <<>>
    /\ cache = NoCache
    /\ load = NotLoaded

StoreIdle ==
    /\ folder_exists = FALSE
    /\ dir = EmptyDir
    /\ now = 1
    /\ lastOp = NoOp
    /\ before = EmptyDir
    /\ written = {}
    /\ FilesIdle

\* build_screener(tickers) for every list of at most MaxTickers tickers.
Init ==
    /\ tickers \in SeqsUpTo(SampleTickers, MaxTickers)
    /\ i = 1
    /\ qualifying = <<>>
    /\ all_results = <<>>
    /\ pc = "for"
    /\ max_retries = DefaultMaxRetries
    /\ retries = 0
    /\ delay = InitialDelay
    /\ result = NoData
    /\ exc = <<>>
    /\ trace = <<>>
    /\ log = <<>>
    /\ StoreIdle

Next == ScreenNext \/ FetchNext

Spec == Init /\ [][Next]_vars

\* fetch_stock_data(ticker, max_retries) called directly.
FetchInit ==
    /\ tickers \in {<<t>> : t \in SampleTickers}
    /\ i = 1
    /\ qualifying = <<>>
    /\ all_results = <<>>
    /\ pc = "while"
    /\ max_retries \in 0..MaxRetriesArg
    /\ retries = 0
    /\ delay = InitialDelay
    /\ result = NoData
    /\ exc = <<>>
    /\ trace = <<>>
    /\ log = <<>>
    /\ StoreIdle

FetchSpec == FetchInit /\ [][FetchNext]_vars

\* The program is sequential and every provider call and sleep returns:
\* a step that can be taken is taken.
FairFetchSpec == FetchSpec /\ WF_vars(FetchNext)

FairSpec == Spec /\ WF_vars(Next)

--------------------------------------------------------------------------
(* The result store on a folder left by earlier runs. *)

\* Snapshot of an earlier run, its timestamp before the clock's range.
OldName(k) == SnapshotName(0 - k)

\* Files of the folder that are no snapshots.
OtherFiles == {FileName("results_", 0, ".bak"), FileName("summary_", 0, ".txt")}

\* Last modification time of an old snapshot: later than the clock's range
\* by up to MaxFiles ticks.
MaxOldTime == MaxClock + MaxFiles

\* A folder holding n old snapshots written one tick apart, the newest at
\* time last; at most one snapshot whose timestamp the clock can show again,
\* with any modification time; and possibly the other files.
FolderOf(n, last, extra, others) ==
    [f \in {OldName(k) : k \in 1..n}
            \cup {SnapshotName(e[1]) : e \in extra}
            \cup (IF others THEN OtherFiles ELSE {})
       |-> IF f \in OtherFiles THEN 1
           ELSE IF f.stamp < 0 THEN last + 1 + f.stamp
           ELSE (CHOOSE e \in extra : e[1] = f.stamp)[2]]

InitialFolders ==
    {FolderOf(n, last, extra, others) :
        n \in 0..MaxExisting,
        last \in 0..MaxOldTime,
        extra \in {{}} \cup {{<<st, t>>} : st \in 0..Stamp(MaxClock), t \in 1..MaxClock},
        others \in BOOLEAN}

StoreInit ==
    /\ tickers = <<>>
    /\ i = 1
    /\ qualifying = <<>>
    /\ all_results = <<>>
    /\ pc = "store"
    /\ max_retries = DefaultMaxRetries
    /\ retries = 0
    /\ delay = InitialDelay
    /\ result = NoData
    /\ exc = <<>>
    /\ trace = <<>>
    /\ log = <<>>
    /\ dir \in InitialFolders
    /\ folder_exists \in (IF dir = EmptyDir THEN BOOLEAN ELSE {TRUE})
    /\ now = 1
    /\ lastOp = NoOp
    /\ before = EmptyDir
    /\ written = {}
    /\ FilesIdle

StoreSpec == StoreInit /\ [][StoreNext]_vars

\* Text left in the audit log by earlier runs.
InitialAudits == { <<>>, <<"Run at ", "0", "\n", "\n">> }

\* A ticker cache left by an earlier run.
OldCache == [exists |-> TRUE, lines |-> << <<"A">>, <<"B", "7">> >>]

\* Folders of the persistence specification: none or empty, or holding the
\* other files and no or MaxFiles old snapshots, older or newer than the
\* clock's range.
PersistFolders ==
    {EmptyDir} \cup {FolderOf(n, last, {}, TRUE) :
                        n \in {0, MaxFiles}, last \in {0, MaxOldTime}}

\* The three persistence operations called in any order on the files left
\* by earlier runs.
PersistInit ==
    /\ tickers = <<>>
    /\ i = 1
    /\ qualifying = <<>>
    /\ all_results = <<>>
    /\ pc = "store"
    /\ max_retries = DefaultMaxRetries
    /\ retries = 0
    /\ delay = InitialDelay
    /\ result = NoData
    /\ exc = <<>>
    /\ trace = <<>>
    /\ log = <<>>
    /\ dir \in PersistFolders
    /\ folder_exists \in (IF dir = EmptyDir THEN BOOLEAN ELSE {TRUE})
    /\ now = 1
    /\ lastOp = NoOp
    /\ before = EmptyDir
    /\ written = {}
    /\ audit \in InitialAudits
    /\ blocks = <<>>
    /\ cache = OldCache
    /\ load = NotLoaded

PersistSpec == PersistInit /\ [][PersistNext]_vars

--------------------------------------------------------------------------
(* main *)

\* Lines of a ticker list edited by hand: padded, empty.
RawLines == { <<"A">>, <<" ", "B", "7", " ">>, <<"-", ".">>, <<>> }

\* One run of main on the files left by earlier runs.
MainInit ==
    /\ tickers = <<>>
    /\ i = 1
    /\ qualifying = <<>>
    /\ all_results = <<>>
    /\ pc = "main"
    /\ max_retries = DefaultMaxRetries
    /\ retries = 0
    /\ delay = InitialDelay
    /\ result = NoData
    /\ exc = <<>>
    /\ trace = <<>>
    /\ log = <<>>
    /\ dir \in {EmptyDir, FolderOf(MaxFiles, 0, {}, TRUE)}
    /\ folder_exists = (dir # EmptyDir)
    /\ now = 1
    /\ lastOp = NoOp
    /\ before = EmptyDir
    /\ written = {}
    /\ audit \in InitialAudits
    /\ blocks = <<>>
    /\ cache \in {NoCache} \cup [exists : {TRUE}, lines : SeqsUpTo(RawLines, MaxCacheLines)]
    /\ load = NotLoaded

MainSpec == MainInit /\ [][MainNext]_vars

--------------------------------------------------------------------------
(* stock_qualifies on the answers of one fetch. *)

\* Values of the fields of info: missing, or around the thresholds.
\* Ratios and prices are in hundredths.
SampleFields ==
    [industry : {Absent, Str(<<"Steel">>), Str(<<"Tobacco">>)},
     exchange : {Absent, Str(<<"OTC">>)},
     marketCap : {Absent, Num(MarketCapMin - 1), Num(MarketCapMin),
                  Num(MarketCapMin + 1)},
     debtToEquity : {Absent, Num(DebtToEquityMax - 1), Num(DebtToEquityMax),
                     Num(DebtToEquityMax + 1)},
     priceToBook : {Absent, Num(PriceToBookMax - 1), Num(PriceToBookMax),
                    Num(PriceToBookMax + 1)},
     profitMargins : {Absent, Num(0), Num(5)},
     regularMarketPrice : {Absent, Num(400), Num(500), Num(600), Num(675),
                           Num(700)}]

\* The Low column of hist: empty, positive, zero or negative lows.
SampleLows == { <<>>, <<500>>, <<550, 500>>, <<500, 650>>, <<0>>, <<-100, 500>> }

\* build_screener at the point where fetch_stock_data has returned
\* (info, hist) for its only ticker.
QualInit ==
    /\ tickers = << <<"A">> >>
    /\ i = 1
    /\ qualifying = <<>>
    /\ all_results = <<>>
    /\ pc = "returned"
    /\ max_retries = DefaultMaxRetries
    /\ retries = 0
    /\ delay = InitialDelay
    /\ result \in [info : SampleFields, hist : SampleLows]
    /\ exc = <<>>
    /\ trace = <<>>
    /\ log = <<>>
    /\ StoreIdle

QualNext == Evaluate \/ ReturnResults

QualSpec == QualInit /\ [][QualNext]_vars

--------------------------------------------------------------------------
(* Vocabulary of the properties *)

IsCall(e) == e.ev = "call"

IsSleep(e) == e.ev = "sleep"

Calls(t) == SelectSeq(t, IsCall)

Sleeps(t) == SelectSeq(t, IsSleep)

RECURSIVE Pow2(_)
Pow2(n) == IF n = 0 THEN 1 ELSE 2 * Pow2(n - 1)

\* The two retryable error classes: rate limit and the upstream auth code.
RetryableClass(msg) == msg \in {RateLimitMsg, AuthMsg}

FailedRetryable(e) == IsCall(e) /\ ~e.ok /\ RetryableClass(e.msg)

FailedOther(e) == IsCall(e) /\ ~e.ok /\ ~RetryableClass(e.msg)

AllRetryable(t) == \A k \in 1..Len(t) : IsCall(t[k]) => FailedRetryable(t[k])

HasAlnum(ticker) == \E k \in 1..Len(ticker) : ticker[k] \in {"A", "B", "7"}

IsPrefix(a, b) == Len(a) <= Len(b) /\ SubSeq(b, 1, Len(a)) = a

FetchEnded == pc \in {"returned", "raised"}

--------------------------------------------------------------------------
(* Fetcher *)

\* C1: when the provider answers the first k attempts (k < max_retries)
\* with a retryable error and attempt k+1 with success, fetch has made
\* exactly k+1 calls, has slept 1, 2, ..., 2^(k-1) between consecutive
\* calls, in that order, and returns the successful answer; and as long as
\* fewer than max_retries attempts have failed the next attempt is made.
C1_RetryThenSuccess ==
    /\ (Len(trace) > 0 /\ trace[Len(trace)].ok) =>
         /\ pc = "returned"
         /\ result = trace[Len(trace)].data
         /\ \E k \in 0..(max_retries - 1) :
              /\ Len(trace) = 2 * k + 1
              /\ \A j \in 1..k : /\ FailedRetryable(trace[2 * j - 1])
                                 /\ trace[2 * j] = SleepEvent(Pow2(j - 1))
    /\ (pc = "while" /\ Len(Calls(trace)) < max_retries) => ENABLED AttemptOk

\* Two rate-limit errors, then success: 3 calls, waits 1 and 2.
C1_Witness ==
    /\ pc = "returned"
    /\ Len(Calls(trace)) = 3
    /\ Sleeps(trace) = <<SleepEvent(1), SleepEvent(2)>>
    /\ trace[1].msg = RateLimitMsg /\ trace[3].msg = RateLimitMsg

C2_Safe ==
    /\ Len(Calls(trace)) <= max_retries
    /\ pc = "returned" => ~AllRetryable(trace)
    /\ (pc = "raised" /\ AllRetryable(trace)) =>
         LET t == tickers[i] IN
         /\ Len(Calls(trace)) = max_retries
         /\ result = NoData
         /\ SubSeq(exc, 2, 1 + Len(t)) = t
         /\ exc[Len(t) + 3] = ToString(max_retries)
    /\ (AllRetryable(trace) /\ Len(Calls(trace)) = max_retries) =>
         pc \in {"while", "raised"}

\* C2: fetch never makes more than max_retries provider calls; when every
\* attempt is answered with a retryable error it makes exactly max_retries
\* calls, ends in the failure whose message names the symbol and the
\* attempt count, and returns no result; and fetch always terminates.
C2_BoundedAttempts == []C2_Safe /\ <>FetchEnded

C2_Witness ==
    /\ pc = "raised"
    /\ max_retries = 3
    /\ Len(Calls(trace)) = 3
    /\ AllRetryable(trace)

\* C3: a provider call that fails with an error outside the two retryable
\* classes is the last thing fetch does: the same error propagates, with no
\* further call and no wait after it.
C3_OtherErrorPropagates ==
    \A k \in 1..Len(trace) :
        FailedOther(trace[k]) =>
            /\ k = Len(trace)
            /\ pc = "raised"
            /\ exc = trace[k].msg

\* A non-retryable error on the third attempt.
C3_Witness ==
    /\ pc = "raised"
    /\ Len(Calls(trace)) = 3
    /\ FailedOther(trace[Len(trace)])

\* C4: the j-th retryable failure is followed by a wait of 2^(j-1), and
\* every wait is followed by another provider call: when fetch ends, the
\* number of waits is one less than the number of calls.
C4_EveryWaitBeforeAttempt ==
    (FetchEnded /\ Len(Calls(trace)) >= 1) =>
        /\ \A j \in 1..Len(Sleeps(trace)) : Sleeps(trace)[j].d = Pow2(j - 1)
        /\ Len(Sleeps(trace)) = Len(Calls(trace)) - 1
        /\ ~IsSleep(trace[Len(trace)])

--------------------------------------------------------------------------
(* Screening pipeline *)

\* The verdict line a ticker must get, from the ticker and the provider's
\* answers to the calls made for it alone.
ExpectedLine(ticker, k, t) ==
    LET calls == Calls(t)
        n == Len(calls)
    IN IF ~HasAlnum(ticker) THEN ticker \o <<" - Skipped invalid ticker">>
       ELSE IF \E j \in 1..n : calls[j].d # k THEN <<"no verdict">>
       ELSE IF n > 0 /\ calls[n].ok
            THEN LET q == stock_qualifies(calls[n].data.info, calls[n].data.hist)
                 IN IF q.raised THEN ticker \o <<" - Error: ">> \o q.msg
                    ELSE IF q.ret THEN ticker \o <<" - Qualifies">>
                    ELSE ticker \o <<" - Does not qualify">>
       ELSE IF n > 0 /\ FailedOther(calls[n])
            THEN ticker \o <<" - Error: ">> \o calls[n].msg
       ELSE IF n = DefaultMaxRetries /\ AllRetryable(t)
            THEN ticker \o <<" - Error: ">> \o FailedMsg(ticker, DefaultMaxRetries)
       ELSE <<"no verdict">>

IsErrorLine(line, ticker) ==
    /\ Len(line) > Len(ticker)
    /\ line[Len(ticker) + 1] = " - Error: "

C5_Safe ==
    /\ Len(all_results) = i - 1
    /\ i <= Len(tickers) + 1
    /\ \A k \in 1..Len(all_results) : IsPrefix(tickers[k], all_results[k])
    /\ pc = "done" => Len(all_results) = Len(tickers)

C5_VerdictStep ==
    Len(all_results') > Len(all_results) =>
        /\ all_results' = Append(all_results, ExpectedLine(tickers[i], i, trace))
        /\ pc = "raised" => IsErrorLine(all_results'[i], tickers[i])

\* C5: for every input list and every provider behaviour the run completes
\* with exactly one verdict per input symbol, the k-th about the k-th
\* symbol; a symbol whose fetch fails gets an "Error" verdict; each verdict
\* is decided by its own symbol and the answers to its own calls, and the
\* verdicts recorded earlier are never changed.
C5_OneVerdictPerSymbol ==
    /\ []C5_Safe
    /\ [][C5_VerdictStep]_vars
    /\ <>(pc = "done")

\* [A, B, C] where B's fetch raised a non-retryable error: A and C qualify.
C5_Witness ==
    /\ pc = "done"
    /\ Len(tickers) = 3
    /\ all_results[1] = tickers[1] \o <<" - Qualifies">>
    /\ all_results[2] = (tickers[2] \o <<" - Error: ">>) \o NotFoundMsg
    /\ all_results[3] = tickers[3] \o <<" - Qualifies">>

\* The processed symbols whose recorded verdict is "Qualifies", in input order.
QualifiedSoFar ==
    LET IsQ(k) == all_results[k] = tickers[k] \o <<" - Qualifies">>
        idx == SelectSeq([k \in 1..Len(all_results) |-> k], IsQ)
    IN [j \in 1..Len(idx) |-> tickers[idx[j]]]

\* C6: at every point of a run the qualifying list is exactly the
\* subsequence, in input order, of the symbols processed so far whose
\* verdict is "Qualifies", and it only ever grows at its end.
C6_QualifyingIsSubsequence ==
    /\ [](qualifying = QualifiedSoFar)
    /\ [][IsPrefix(qualifying, qualifying')]_vars

\* Three symbols processed, two of them qualifying and one not.
C6_Witness ==
    /\ Len(all_results) = 3
    /\ Len(qualifying) = 2
    /\ \E k \in 1..3 : HasAlnum(tickers[k])
                       /\ all_results[k] # tickers[k] \o <<" - Qualifies">>

\* C7: for a symbol with no alphanumeric character the pipeline never
\* enters fetch (no provider call), records exactly the "Skipped invalid
\* ticker" verdict, raises nothing and goes on to the next symbol.
C7_InvalidSkipped ==
    \A k \in 1..Len(tickers) :
        ~HasAlnum(tickers[k]) =>
            /\ k <= Len(all_results) =>
                 all_results[k] = tickers[k] \o <<" - Skipped invalid ticker">>
            /\ \A p \in 1..Len(log) : ~(log[p].ev = "fetch" /\ log[p].d = k)
            /\ \A p \in 1..Len(trace) : ~(IsCall(trace[p]) /\ trace[p].d = k)
            /\ i = k => pc = "for"
            /\ i > k => Len(all_results) >= k

\* An invalid symbol was skipped and the symbol after it was fetched.
C7_Witness ==
    /\ Len(tickers) >= 2
    /\ ~HasAlnum(tickers[1])
    /\ Len(all_results) >= 1
    /\ i = 2
    /\ Len(Calls(trace)) >= 1

Pauses(l) == SelectSeq(l, IsSleep)

BetweenSymbols == pc \in {"for", "done"}

\* C8 as stated: a run performs one inter-symbol pause after every symbol,
\* whatever its verdict: n pauses after n symbols.
C8_PauseAfterEverySymbol ==
    BetweenSymbols => Len(Pauses(log)) = Len(all_results)

\* C8 as amended: exactly one pause of 1 time unit follows the verdict of
\* every symbol that passed the validity check, before the next symbol is
\* started; no pause follows the verdict of a skipped invalid symbol.
C8_PauseAfterEveryFetchedSymbol ==
    BetweenSymbols =>
        /\ \A p \in 1..Len(log) :
             /\ log[p].ev = "verdict" =>
                  IF HasAlnum(tickers[log[p].d])
                  THEN p < Len(log) /\ log[p + 1] = SleepEvent(1)
                  ELSE p = Len(log) \/ ~IsSleep(log[p + 1])
             /\ IsSleep(log[p]) => p > 1 /\ log[p - 1].ev = "verdict"
        /\ Len(Pauses(log)) =
             Cardinality({k \in 1..Len(all_results) : HasAlnum(tickers[k])})

\* A finished run over three symbols, one of them invalid and one in error.
C8_Witness ==
    /\ pc = "done"
    /\ Len(tickers) = 3
    /\ Len(Pauses(log)) = 2
    /\ \E k \in 1..3 : IsErrorLine(all_results[k], tickers[k])

--------------------------------------------------------------------------
(* Result store *)

\* The files whose name starts with "results_" and ends with ".txt".
Snapshots(d) == {f \in DOMAIN d : f.prefix = "results_" /\ f.ext = ".txt"}

\* The folder as the pruning of the last operation found it, and the
\* files that pruning deleted.
AtPrune == [f \in (DOMAIN before) \cup written |->
               IF f \in written THEN lastOp.at ELSE before[f]]

Deleted == (DOMAIN AtPrune) \ (DOMAIN dir)

\* C9: after every save_snapshot, whatever the number of snapshot files
\* before it, the folder holds at most 7 snapshot files, and every file the
\* pruning deleted was modified no later than every snapshot file it kept.
C9_AtMostSevenAfterSave ==
    lastOp.op = "save" =>
        /\ Cardinality(Snapshots(dir)) <= 7
        /\ \A f \in Deleted : \A g \in Snapshots(dir) : AtPrune[f] <= dir[g]

\* A save into a folder of 10 or more snapshots, some of them deleted with
\* the same modification time as one that was kept.
C9_Witness ==
    /\ lastOp.op = "save"
    /\ Cardinality(Snapshots(before)) >= 10
    /\ Cardinality(Snapshots(dir)) = 7
    /\ \E f \in Deleted : \E g \in Snapshots(dir) : AtPrune[f] = dir[g]

C10_AfterPrune ==
    lastOp.op = "prune" =>
        /\ Cardinality(Snapshots(before)) <= lastOp.max_files => dir = before
        /\ \A gone \in DeleteSets(dir, lastOp.max_files) : gone = {}

\* A prune(max_files) step taken right after a prune(max_files).
C10_SecondPrune ==
    (/\ lastOp.op = "prune"
     /\ lastOp'.op = "prune"
     /\ lastOp'.max_files = lastOp.max_files
     /\ before' = dir)
        => dir' = dir

\* C10: prune(max_files) deletes nothing when the folder holds max_files or
\* fewer snapshot files, and a second prune right after a first one deletes
\* nothing more and leaves the same files.
C10_PruneIdempotent == []C10_AfterPrune /\ [][C10_SecondPrune]_vars

\* A prune(7) of a folder that holds exactly 7 snapshots, beside other
\* files.
C10_Witness ==
    /\ lastOp.op = "prune"
    /\ lastOp.max_files = 7
    /\ Cardinality(Snapshots(before)) = 7
    /\ Cardinality(Snapshots(dir)) = 7
    /\ Cardinality(DOMAIN dir) > 7

--------------------------------------------------------------------------
(* The audit log *)

\* The text of one block: the header with the run's timestamp, one line
\* per verdict in order, an empty line.
BlockText(b) ==
    LET line(k) == b.lines[k] \o <<"\n">>
        upto[k \in 0..Len(b.lines)] ==
            IF k = 0 THEN <<"Run at ", ToString(b.at \div TicksPerSecond), "\n">>
            ELSE upto[k - 1] \o line(k)
    IN upto[Len(b.lines)] \o <<"\n">>

\* The text of the first n blocks appended, in run order.
BlocksText(n) ==
    LET upto[k \in 0..n] ==
            IF k = 0 THEN <<>> ELSE upto[k - 1] \o BlockText(blocks[k])
    IN upto[n]

C11_Blocks == \E old \in InitialAudits : audit = old \o BlocksText(Len(blocks))

C11_Step ==
    \/ audit' = audit /\ blocks' = blocks
    \/ /\ Len(blocks') = Len(blocks) + 1
       /\ audit' = audit \o BlockText(blocks'[Len(blocks')])
       /\ dir' = dir

\* C11: every append leaves the previous text of the audit log as a prefix
\* and adds exactly one block (header, the verdict lines in order, an
\* empty line); after r appends the log holds the r blocks in run order
\* after its earlier text; saving a snapshot and pruning never change it.
C11_AuditAppendOnly == []C11_Blocks /\ [][C11_Step]_vars

\* Two blocks appended after earlier text, with a snapshot saved and a
\* prune in between or after.
C11_Witness ==
    /\ Len(blocks) = 2
    /\ blocks[2].lines # <<>>
    /\ audit # BlocksText(2)
    /\ lastOp.op = "prune"
    /\ DOMAIN dir # DOMAIN before

--------------------------------------------------------------------------
(* The qualifier *)

\* The verdict on the fetched answer has been recorded.
Judged == Len(all_results) = 1 /\ Len(tickers) = 1

Accepted == Judged /\ all_results[1] = tickers[1] \o <<" - Qualifies">>

Rejected == Judged /\ all_results[1] = tickers[1] \o <<" - Does not qualify">>

Missing(key) == result.info[key].tag = "absent"

NumericFields ==
    {"marketCap", "debtToEquity", "priceToBook", "profitMargins",
     "regularMarketPrice"}

Low3y == CHOOSE x \in {result.hist[k] : k \in 1..Len(result.hist)} :
             \A k \in 1..Len(result.hist) : x <= result.hist[k]

C13_MarketCapStrict ==
    Accepted => ~Missing("marketCap") /\ result.info.marketCap.v > 50000000

\* C14: the qualifier returns true only when the debt-to-equity ratio is
\* strictly below 0.4 and the price-to-book ratio strictly below 1.2.
C14_RatiosStrict ==
    Accepted => /\ ~Missing("debtToEquity") /\ result.info.debtToEquity.v < 40
                /\ ~Missing("priceToBook") /\ result.info.priceToBook.v < 120

\* C15: when the lowest low of the history is zero or negative, the
\* qualifier returns false and raises nothing.
C15_NonPositiveLowRejects ==
    Judged /\ result.hist # <<>> /\ Low3y <= 0 => Rejected

\* Rules 1 to 7 as the specification states them.
PassesRules1To7 ==
    /\ result.info.industry.s \in {<<>>, <<"Steel">>}
    /\ result.info.exchange.s # <<"OTC">>
    /\ ~Missing("marketCap") /\ result.info.marketCap.v > 50000000
    /\ ~Missing("debtToEquity") /\ result.info.debtToEquity.v < 40
    /\ ~Missing("priceToBook") /\ result.info.priceToBook.v < 120
    /\ ~Missing("profitMargins") /\ result.info.profitMargins.v > 0
    /\ result.hist # <<>>

PriceIs(cents) ==
    ~Missing("regularMarketPrice") /\ result.info.regularMarketPrice.v = cents

\* C16: for a snapshot passing rules 1 to 7 and a positive lowest low, the
\* qualifier returns true exactly when the price is at least 5 and
\* 100 * (price - low) <= 35 * low, and false otherwise: price 6 over low 5
\* is accepted, price 7 over low 5 and price 4 are rejected.
C16_PriceRules ==
    Judged /\ PassesRules1To7 /\ Low3y > 0
      => LET price == result.info.regularMarketPrice
             ok == /\ ~Missing("regularMarketPrice")
                   /\ price.v >= 500
                   /\ 100 * (price.v - Low3y) <= 35 * Low3y
         IN /\ ok => Accepted
            /\ ~ok => Rejected
            /\ PriceIs(600) /\ Low3y = 500 => Accepted
            /\ PriceIs(700) /\ Low3y = 500 => Rejected
            /\ PriceIs(400) => Rejected

\* A price exactly 35% above the lowest low of a two-day history is
\* accepted.
C16_Witness ==
    /\ Accepted
    /\ PassesRules1To7
    /\ PriceIs(675)
    /\ Low3y = 500
    /\ Len(result.hist) = 2

--------------------------------------------------------------------------
(* The ticker source *)

ProviderFailed == load.how = "provider_failed"

C17_Ended ==
    ProviderFailed
      => /\ pc = "exit"
         /\ tickers = <<>>
         /\ ~cache.exists
         /\ trace = <<>> /\ log = <<>> /\ all_results = <<>>
         /\ blocks = <<>> /\ audit \in InitialAudits
         /\ lastOp.op = "none" /\ written = {}

C17_Step ==
    ProviderFailed'
      => /\ ~cache.exists
         /\ cache' = cache
         /\ audit' = audit
         /\ dir' = dir
         /\ folder_exists' = folder_exists

\* C17: with no cached ticker list and a failing index provider, loading
\* returns the empty list without raising and creates no cache file, and
\* the run ends there: no market-data call, no audit block, no snapshot
\* written or pruned.
C17_EmptyUniverseEndsRun == []C17_Ended /\ [][C17_Step]_vars

\* The index provider failed in a run that found a results folder and an
\* audit log of earlier runs.
C17_Witness ==
    /\ ProviderFailed
    /\ pc = "exit"
    /\ Cardinality(DOMAIN dir) > 7
    /\ audit # <<>>

--------------------------------------------------------------------------
(* Snapshots *)

Saved == lastOp.op = "save"

\* C18: every save writes a file that did not exist before the call, so
\* that the number of snapshots before pruning grows by exactly one, also
\* when two saves fall in the same second.
C18_SaveWritesNewFile ==
    Saved => /\ written \cap DOMAIN before = {}
             /\ Cardinality(Snapshots(AtPrune)) = Cardinality(Snapshots(before)) + 1

\* Snapshots that were in the folder before the save, modified at or after
\* the time of the save.
NotOlder == {f \in Snapshots(before) \ written : before[f] >= lastOp.at}

\* C19: the snapshot a save has just written survives the pruning of the
\* same call, whatever files were in the folder.
C19_SavedSurvives == Saved => written \subseteq DOMAIN dir

\* C19, amended: the snapshot a save has just written survives the pruning
\* of the same call whenever fewer than 7 other snapshots of the folder
\* were modified at or after the time of the save.
C19_SavedSurvivesOlder ==
    Saved /\ Cardinality(NotOlder) < 7 => written \subseteq DOMAIN dir

\* A save into a folder holding more than 7 snapshots, some of them
\* modified later than the save: the pruning deleted files and kept the
\* new one.
C19_Witness ==
    /\ Saved
    /\ Cardinality(Snapshots(before)) > 7
    /\ Cardinality(NotOlder) \in 1..6
    /\ written \cap DOMAIN before = {}
    /\ written \subseteq DOMAIN dir
    /\ Deleted # {}

\* A step of save_recommended_results or prune_old_results.
StoreStep == dir' # dir \/ lastOp' # lastOp

C20_Step ==
    StoreStep
      => /\ \A f \in DOMAIN dir :
              ~(f.prefix = "results_" /\ f.ext = ".txt")
                => f \in DOMAIN dir' /\ dir'[f] = dir[f]
         /\ audit' = audit
         /\ cache' = cache

\* C20: pruning deletes only files whose names match the snapshot pattern;
\* the other files of the folder, the audit log and the ticker cache are
\* left unchanged by prune and by save.
C20_OnlySnapshotsDeleted == [][C20_Step]_vars

\* A prune deleted snapshots from a folder holding other files, with an
\* audit log that has received a block and a ticker cache in place.
C20_Witness ==
    /\ lastOp.op = "prune"
    /\ Deleted # {}
    /\ \E f \in DOMAIN dir : f.ext = ".bak"
    /\ \E f \in DOMAIN dir : f.prefix = "summary_"
    /\ Len(blocks) > 0
    /\ cache.exists

====
